---------------------------- MODULE Spec2Model ----------------------------
(***************************************************************************)
(* A model of fwunit/srx/parse.py: the three extractors of a Juniper SRX   *)
(* export (security policies, the inet.0 route table, the security zones   *)
(* with their address books) and the Firewall constructor that runs them.  *)
(*                                                                         *)
(* An XML element is a record of the children the code reads; a child      *)
(* that find() does not find is Absent.  The extractors are state          *)
(* machines that consume one element per step, in document order.  Under   *)
(* SpecZones, SpecRoutes and SpecPolicies the next element is any element  *)
(* of a bounded set; under SpecFirewall the three documents are fixed by   *)
(* Init and the same steps read them.                                      *)
(***************************************************************************)
EXTENDS Integers, Sequences, FiniteSets, TLC

VARIABLES
    pc,        \* where the running extractor is
    err,       \* the exception that ended the run ("none" while there is none)
    result,    \* what the extractor returned to its caller
    zones,     \* _parse_zones: the list zones
    zone,      \* Zone._from_xml: the Zone under construction
    nZone,     \* security-zone elements consumed so far
    nBook,     \* address-book children consumed so far
    defined,   \* bookkeeping: name -> tag of the address-book children of this zone
    routes,    \* _parse_routes: the list routes
    route,     \* Route._from_xml: the Route under construction
    nTbl,      \* route-table elements consumed so far
    nRt,       \* rt elements consumed so far
    nEnt,      \* rt-entry elements of the current rt consumed so far
    origin,    \* which rt-entry set route.interface and which route.is_local
    policies,  \* _parse_policies: the list policies
    ctx,       \* the from_zone and to_zone of the security-context being read
    nCtx,      \* security-context elements consumed so far
    nPol,      \* policy-information elements consumed so far
    docs,      \* the three documents handed to Firewall(...)
    order,     \* the order in which Firewall.__init__ runs the extractors
    step,      \* how many extractors Firewall.__init__ has started
    self,      \* the attributes of the Firewall being constructed
    fw         \* the Firewall the caller received

ctlVars    == <<pc, err, result>>
zoneVars   == <<zones, zone, nZone, nBook, defined>>
routeVars  == <<routes, route, nTbl, nRt, nEnt, origin>>
policyVars == <<policies, ctx, nCtx, nPol>>
fwVars     == <<docs, order, step, self, fw>>
vars == <<ctlVars, zoneVars, routeVars, policyVars, fwVars>>

----------------------------------------------------------------------------
(* Bounds of the model.                                                    *)

MaxZones    == 2   \* security-zone elements per document
MaxBook     == 3   \* address-book children per document
MaxMembers  == 2   \* address children of one address-set
MaxTables   == 3   \* route-table elements per document
MaxRts      == 2   \* rt elements per document
MaxEntries  == 2   \* rt-entry elements per rt
MaxVias     == 2   \* via elements under one rt-entry
MaxContexts == 2   \* security-context elements per document
MaxPolicies == 2   \* policy-information elements per document
AddrBits    == 1   \* width of an address (32 in IPv4)

----------------------------------------------------------------------------
(* Values shared by the extractors.                                        *)

\* find() returned None: the element has no such child.  The child is a
\* string, a prefix (a pair) or a text kept as the sequence of its code
\* points.  NoText is the text of a child that is there and holds none
\* (None, as ElementTree has it).
Absent       == "<absent>"
AbsentPrefix == <<>>
AbsentText   == <<-1>>
NoText       == <<-2>>

\* What an extractor has handed to its caller: nothing yet, or a list.
NoResult == [kind |-> "none", val |-> <<>>]
Returned(list) == [kind |-> "list", val |-> list]

SeqsUpTo(S, n) == UNION {[1..k -> S] : k \in 0..n}

\* The sequences of up to n elements of S, all different.
DistinctSeqsUpTo(S, n) ==
    {q \in SeqsUpTo(S, n) : \A i, j \in DOMAIN q : i # j => q[i] # q[j]}

RECURSIVE Pow2(_)
Pow2(n) == IF n = 0 THEN 1 ELSE 2 * Pow2(n - 1)

----------------------------------------------------------------------------
(* fwunit.ip: IP and IPSet.  A prefix text "net/len" is the pair           *)
(* <<top len bits of net, len>>; an IPSet is the set of addresses it       *)
(* holds.                                                                  *)

AllAddrs == 0..(Pow2(AddrBits) - 1)

\* IP('0.0.0.0/0')
AnyPrefix == <<0, 0>>

IP(prefix) == [net |-> prefix[1], prefixlen |-> prefix[2]]

\* IPSet([ip, ...]): the addresses the networks cover.
IPSet(ips) ==
    {a \in AllAddrs : \E ip \in ips :
        a \div Pow2(AddrBits - ip.prefixlen) = ip.net}

\* IPSet.__add__
IPSetAdd(s, t) == s \cup t

----------------------------------------------------------------------------
(* How a run ends in an exception: nothing is returned.                    *)

Raise(kind) ==
    /\ pc' = "failed"
    /\ err' = kind

----------------------------------------------------------------------------
(* Zones: Zone.__init__, Zone._from_xml, Firewall._parse_zones.            *)

ZoneNames      == {"trust"}
InterfaceLists == {<<"ge-0/0/0">>}
EntryNames     == {"any", "A", "S"}
MemberNames    == {"any", "A", "S"}
BookPrefixes   == {<<0, 1>>, <<1, 1>>}

\* A security-zone element, without the children of its address-book:
\* its name child (or Absent), the texts of its interfaces/name descendants,
\* and whether it has an address-book child.
ZoneElts ==
    [tag : {"security-zone"}, name : ZoneNames \cup {Absent},
     interfaces : InterfaceLists, book : BOOLEAN]

\* The children of an address-book: address elements (name, ip-prefix) and
\* address-set elements (name, the names of the address children).
AddressElts ==
    [tag : {"address"}, name : EntryNames, prefix : BookPrefixes,
     members : {<<>>}]
AddressSetElts ==
    [tag : {"address-set"}, name : EntryNames, prefix : {AbsentPrefix},
     members : DistinctSeqsUpTo(MemberNames, MaxMembers)]
BookElts == AddressElts \cup AddressSetElts

NoZone == [name |-> Absent, interfaces |-> <<>>, addresses |-> [n \in {} |-> {}]]

NoneDefined == [n \in {} |-> ""]

\* Zone.__init__: the addresses of a new Zone, given the Zones built before.
\* (a faulty variant, one addresses mapping shared by all Zones)
SharedAddresses(earlier) ==
    IF earlier = <<>> THEN [n \in {"any"} |-> IPSet({IP(AnyPrefix)})]
    ELSE earlier[Len(earlier)].addresses
NewAddresses(earlier) == [n \in {"any"} |-> IPSet({IP(AnyPrefix)})]

\* zone.addresses[name] = ip
Store(addresses, name, ip) ==
    [n \in DOMAIN addresses \cup {name} |->
        IF n = name THEN ip ELSE addresses[n]]

\* zone.addresses[setname]: the value, or a KeyError.
\* (a faulty variant, an unknown name reads as the empty IPSet)
LookupOrEmpty(addresses, setname) ==
    [ok |-> TRUE,
     val |-> IF setname \in DOMAIN addresses THEN addresses[setname] ELSE {}]
Lookup(addresses, setname) ==
    IF setname \in DOMAIN addresses
    THEN [ok |-> TRUE, val |-> addresses[setname]]
    ELSE [ok |-> FALSE, val |-> {}]

\* The loop over the address children of an address-set, from the i-th on,
\* with ip the IPSet summed so far.
\* (a faulty variant, ip = instead of ip +=)
RECURSIVE LastMember(_, _, _, _)
LastMember(addresses, members, i, ip) ==
    IF i > Len(members) THEN [ok |-> TRUE, val |-> ip]
    ELSE LET found == Lookup(addresses, members[i])
         IN  IF found.ok
             THEN LastMember(addresses, members, i + 1, found.val)
             ELSE [ok |-> FALSE, val |-> {}]
RECURSIVE SumMembers(_, _, _, _)
SumMembers(addresses, members, i, ip) ==
    IF i > Len(members) THEN [ok |-> TRUE, val |-> ip]
    ELSE LET found == Lookup(addresses, members[i])
         IN  IF found.ok
             THEN SumMembers(addresses, members, i + 1, IPSetAdd(ip, found.val))
             ELSE [ok |-> FALSE, val |-> {}]

\* for sz in ...: Zone._from_xml(sz), up to the loop over the address-book.
ZoneBegin(sz) ==
    /\ pc = "zones"
    /\ nZone' = nZone + 1
    /\ defined' = NoneDefined
    /\ IF sz.name = Absent
       THEN /\ Raise("AttributeError")
            /\ zone' = [NoZone EXCEPT !.addresses = NewAddresses(zones)]
       ELSE /\ zone' = [name |-> sz.name, interfaces |-> sz.interfaces,
                        addresses |-> NewAddresses(zones)]
            /\ IF sz.book
               THEN /\ pc' = "book"
                    /\ err' = err
               ELSE Raise("TypeError")
    /\ UNCHANGED <<result, zones, nBook>>

\* One pass of the loop over the children of the address-book.
BookChild(addr) ==
    /\ pc = "book"
    /\ nBook' = nBook + 1
    /\ IF addr.tag = "address"
       THEN /\ zone' = [zone EXCEPT !.addresses =
                           Store(@, addr.name, IPSet({IP(addr.prefix)}))]
            /\ defined' = Store(defined, addr.name, addr.tag)
            /\ UNCHANGED <<pc, err>>
       ELSE LET ip == SumMembers(zone.addresses, addr.members, 1, IPSet({}))
            IN  IF ip.ok
                THEN /\ zone' = [zone EXCEPT !.addresses =
                                    Store(@, addr.name, ip.val)]
                     /\ defined' = Store(defined, addr.name, addr.tag)
                     /\ UNCHANGED <<pc, err>>
                ELSE /\ Raise("KeyError")
                     /\ UNCHANGED <<zone, defined>>
    /\ UNCHANGED <<result, zones, nZone>>

\* The address-book is exhausted: return zone; zones.append(...).
ZoneEnd ==
    /\ pc = "book"
    /\ zones' = Append(zones, zone)
    /\ pc' = "zones"
    /\ UNCHANGED <<err, result, zone, nZone, nBook, defined>>

\* No security-zone is left: return zones.
ZonesReturn ==
    /\ pc = "zones"
    /\ pc' = "returned"
    /\ result' = Returned(zones)
    /\ UNCHANGED <<err, zoneVars>>

----------------------------------------------------------------------------
(* Routes: Route.__init__, Route._from_xml, Firewall._parse_routes.        *)

\* The text of an element without text, and the initial value of a field.
None == "<None>"

\* Python's truth value of a text (or None).
Truthy(text) == text # None /\ text # ""

TableNames     == {"inet.0", "inet.6"}
RtDestinations == {<<0, 1>>, <<1, 1>>}
ViaTexts       == {"ge-0/0/1", "ge-0/0/2", None}

\* A route-table element: the text of its table-name child (findtext gives
\* None when there is none).
TableElts == [tag : {"route-table"}, name : TableNames \cup {None}]

\* An rt element: its rt-destination child.
RtElts == [tag : {"rt"}, dest : RtDestinations \cup {AbsentPrefix}]

\* An rt-entry element: whether a current-active is beneath it, the texts of
\* the via elements beneath it in document order, whether a to is beneath it.
RtEntryElts ==
    [tag : {"rt-entry"}, active : BOOLEAN,
     vias : SeqsUpTo(ViaTexts, MaxVias), to : BOOLEAN]

\* Route.__init__ and the assignment of destination.
NewRoute(dest) ==
    [destination |-> IP(dest), interface |-> None, is_local |-> None]

NoRoute == [destination |-> None, interface |-> None, is_local |-> None]

\* The body of the loop over the rt-entry elements.
EntryStep(r, entry) ==
    IF entry.active
    THEN [r EXCEPT !.interface = IF entry.vias # <<>> THEN entry.vias[1] ELSE @,
                   !.is_local = ~entry.to]
    ELSE r

\* Bookkeeping, not program state: the indices of the rt-entry elements
\* whose pass assigned route.interface and route.is_local (0: none yet).
NoOrigin == [interface |-> 0, is_local |-> 0]
EntryOrigin(o, entry, i) ==
    IF entry.active
    THEN [interface |-> IF entry.vias # <<>> THEN i ELSE o.interface,
          is_local |-> i]
    ELSE o

\* if route.interface: return route   /   if route: routes.append(route)
\* (a faulty variant, the Route is returned whatever its interface)
UsefulAlways(r) == TRUE
Useful(r) == Truthy(r.interface)

\* Where _parse_routes goes once the rt elements of the inet.0 table are
\* exhausted: it returns.
\* (a faulty variant, the loop over the tables goes on)
AfterTableScanOn == "tables"
AfterTable == "returned"

\* One pass of the loop over the route-table elements.
TableNext(table) ==
    /\ pc = "tables"
    /\ nTbl' = nTbl + 1
    /\ pc' = IF table.name = "inet.0" THEN "rts" ELSE "tables"
    /\ UNCHANGED <<err, result, routes, route, nRt, nEnt, origin>>

\* No route-table is left: return [].
RoutesNone ==
    /\ pc = "tables"
    /\ pc' = "returned"
    /\ result' = Returned(<<>>)
    /\ UNCHANGED <<err, routeVars>>

\* Route._from_xml(rt_elt), up to the loop over the rt-entry elements.
RtBegin(rt) ==
    /\ pc = "rts"
    /\ nRt' = nRt + 1
    /\ nEnt' = 0
    /\ IF rt.dest = AbsentPrefix
       THEN /\ Raise("AttributeError")
            /\ route' = NoRoute
       ELSE /\ route' = NewRoute(rt.dest)
            /\ pc' = "entries"
            /\ err' = err
    /\ origin' = NoOrigin
    /\ UNCHANGED <<result, routes, nTbl>>

\* One pass of the loop over the rt-entry elements.
RtEntry(entry) ==
    /\ pc = "entries"
    /\ nEnt' = nEnt + 1
    /\ route' = EntryStep(route, entry)
    /\ origin' = EntryOrigin(origin, entry, nEnt + 1)
    /\ UNCHANGED <<ctlVars, routes, nTbl, nRt>>

\* The rt-entry elements are exhausted: the Route is returned and appended,
\* or dropped.
RtEnd ==
    /\ pc = "entries"
    /\ routes' = IF Useful(route) THEN Append(routes, route) ELSE routes
    /\ pc' = "rts"
    /\ UNCHANGED <<err, result, route, nTbl, nRt, nEnt, origin>>

\* The rt elements of the inet.0 table are exhausted: return routes.
RoutesReturn ==
    /\ pc = "rts"
    /\ pc' = AfterTable
    /\ result' = IF AfterTable = "returned" THEN Returned(routes) ELSE result
    /\ UNCHANGED <<err, routeVars>>

----------------------------------------------------------------------------
(* Policies: Policy.__init__, Policy._from_xml, Firewall._parse_policies.  *)

ContextZones == {"trust", "untrust"}
PolicyNames  == {"p1", "p2"}
PolicyStates == {"enabled", "disabled"}
\* "1", "01", U+00A0 U+0662 tab (an arabic-indic two in whitespace)
SeqTexts     == {<<49>>, <<48, 49>>, <<160, 1634, 9>>}
\* "x"
NotANumber   == <<120>>
AddressLists == {<<"any">>}
AppLists     == {<<"junos-ssh">>}
ActionTypes  == {"permit"}

\* A security-context element: the source-zone-name and
\* destination-zone-name of its context-information.
ContextElts ==
    [tag : {"security-context"}, from : ContextZones \cup {Absent},
     to : ContextZones \cup {Absent}]

\* A policy-information element: the children Policy._from_xml reads.  The
\* text of policy-sequence-number is the sequence of its code points; src,
\* dst and apps are the address-name and application-name texts, in
\* document order, of the children of source-addresses and
\* destination-addresses and of the application children of applications
\* (Absent for a child without the name).
GoodPie ==
    [tag |-> "policy-information", name |-> "p1", state |-> "enabled",
     seq |-> <<49>>, src |-> <<"any">>, dst |-> <<"any">>,
     apps |-> <<"junos-ssh">>, action |-> "permit"]

\* The elements Policy._from_xml parses.
GoodElts ==
    [tag : {"policy-information"}, name : PolicyNames,
     state : PolicyStates, seq : SeqTexts,
     src : AddressLists, dst : AddressLists, apps : AppLists,
     action : ActionTypes]

\* Elements on which Policy._from_xml raises: one for each statement that
\* can, and two with a second fault behind the first.
BrokenElts ==
    { [GoodPie EXCEPT !.name = Absent],
      [GoodPie EXCEPT !.state = Absent],
      [GoodPie EXCEPT !.seq = AbsentText],
      [GoodPie EXCEPT !.seq = NoText],
      [GoodPie EXCEPT !.seq = NotANumber],
      [GoodPie EXCEPT !.src = <<Absent>>],
      [GoodPie EXCEPT !.dst = <<"any", Absent>>],
      [GoodPie EXCEPT !.apps = <<Absent>>],
      [GoodPie EXCEPT !.action = Absent],
      [GoodPie EXCEPT !.name = Absent, !.seq = NotANumber],
      [GoodPie EXCEPT !.seq = NoText, !.action = Absent] }

PolicyElts == GoodElts \cup BrokenElts

\* A text is the sequence of the code points of its characters.  The
\* decimal digits int() reads are the ASCII digits and those of the other
\* scripts (Unicode category Nd); they come in runs of ten, 0 to 9, and
\* DigitZeros holds the zero of each run.
DigitZeros ==
    {48, 1632, 1776, 1984, 2406, 2534, 2662, 2790, 2918, 3046, 3174,
     3302, 3430, 3558, 3664, 3792, 3872, 4160, 4240, 6112, 6160, 6470,
     6608, 6784, 6800, 6992, 7088, 7232, 7248, 42528, 43216, 43264,
     43472, 43504, 43600, 44016, 65296, 66720, 68912, 69734, 69872,
     69942, 70096, 70384, 70736, 70864, 71248, 71360, 71472, 71904,
     72016, 72784, 73040, 73120, 92768, 92864, 93008, 120782, 120792,
     120802, 120812, 120822, 123200, 123632, 125264, 130032}
Digits == UNION {z..(z + 9) : z \in DigitZeros}
DigitVal(c) == c - (CHOOSE z \in DigitZeros : c \in z..(z + 9))

PlusSign   == 43   \* "+"
MinusSign  == 45   \* "-"
Underscore == 95   \* "_"

\* The whitespace int() skips at both ends of its argument: tab, newline,
\* vertical tab, form feed, carriage return, space, U+0085, U+00A0,
\* U+1680, U+2000 to U+200A, U+2028, U+2029, U+202F, U+205F, U+3000.
Whitespace ==
    {9, 10, 11, 12, 13, 32, 133, 160, 5760} \cup (8192..8202)
        \cup {8232, 8233, 8239, 8287, 12288}
RECURSIVE LStrip(_)
LStrip(t) ==
    IF t # <<>> /\ Head(t) \in Whitespace THEN LStrip(Tail(t)) ELSE t
RECURSIVE RStrip(_)
RStrip(t) ==
    IF t # <<>> /\ t[Len(t)] \in Whitespace
    THEN RStrip(SubSeq(t, 1, Len(t) - 1)) ELSE t

\* The digits of an int() literal: single underscores may stand between
\* digits (Python 3) and count for nothing.
DigitsGrouped(body) ==
    /\ body # <<>>
    /\ body[1] \in Digits /\ body[Len(body)] \in Digits
    /\ \A i \in 1..Len(body) : body[i] \in Digits \cup {Underscore}
    /\ \A i \in 1..(Len(body) - 1) :
          ~(body[i] = Underscore /\ body[i + 1] = Underscore)

\* int() refuses a literal of more than 4300 digits
\* (sys.int_info.default_max_str_digits); underscores, sign and whitespace
\* do not count.
MaxStrDigits == 4300
DigitCount(body) == Cardinality({i \in DOMAIN body : body[i] \in Digits})

\* The value of the digits read so far and to come.  Python's integers
\* are unbounded; the texts of this model denote small numbers.
RECURSIVE DecimalValue(_, _)
DecimalValue(t, acc) ==
    IF t = <<>> THEN acc
    ELSE IF Head(t) = Underscore THEN DecimalValue(Tail(t), acc)
    ELSE DecimalValue(Tail(t), 10 * acc + DigitVal(Head(t)))

\* int(text): the value, or a ValueError.
\* (a faulty variant, only the first digit is read)
IntFirstDigit(text) ==
    LET t == RStrip(LStrip(text))
    IN  IF t # <<>> /\ t[1] \in Digits
        THEN [ok |-> TRUE, val |-> DigitVal(t[1])]
        ELSE [ok |-> FALSE, val |-> 0]
PyInt(text) ==
    LET t    == RStrip(LStrip(text))
        neg  == t # <<>> /\ t[1] = MinusSign
        body == IF t # <<>> /\ t[1] \in {MinusSign, PlusSign}
                THEN Tail(t) ELSE t
    IN  IF DigitsGrouped(body) /\ DigitCount(body) <= MaxStrDigits
        THEN [ok |-> TRUE,
              val |-> IF neg THEN 0 - DecimalValue(body, 0)
                      ELSE DecimalValue(body, 0)]
        ELSE [ok |-> FALSE, val |-> 0]

\* Policy._from_xml: the exception it raises on pie, or "none".
\* The statements are tried in the order of the code: policy-name,
\* policy-state, policy-sequence-number (missing, without text, not a
\* number), the address-name of each source and destination address, the
\* application-name of each application, action-type.
HasAbsent(names) == \E i \in DOMAIN names : names[i] = Absent
PolicyError(pie) ==
    IF pie.name = Absent THEN "AttributeError"
    ELSE IF pie.state = Absent THEN "AttributeError"
    ELSE IF pie.seq = AbsentText THEN "AttributeError"
    ELSE IF pie.seq = NoText THEN "TypeError"
    ELSE IF ~PyInt(pie.seq).ok THEN "ValueError"
    ELSE IF HasAbsent(pie.src) THEN "AttributeError"
    ELSE IF HasAbsent(pie.dst) THEN "AttributeError"
    ELSE IF HasAbsent(pie.apps) THEN "AttributeError"
    ELSE IF pie.action = Absent THEN "AttributeError"
    ELSE "none"

\* Policy._from_xml: the Policy it returns when it raises nothing.
\* (a faulty variant, from_zone and to_zone exchanged)
PolicySwapped(from_zone, to_zone, pie) ==
    [name |-> pie.name, from_zone |-> to_zone, to_zone |-> from_zone,
     enabled |-> pie.state = "enabled", sequence |-> PyInt(pie.seq).val,
     source_addresses |-> pie.src, destination_addresses |-> pie.dst,
     applications |-> pie.apps, action |-> pie.action]
PolicyFromXml(from_zone, to_zone, pie) ==
    [name |-> pie.name, from_zone |-> from_zone, to_zone |-> to_zone,
     enabled |-> pie.state = "enabled", sequence |-> PyInt(pie.seq).val,
     source_addresses |-> pie.src, destination_addresses |-> pie.dst,
     applications |-> pie.apps, action |-> pie.action]

\* from_zone and to_zone before the first security-context: not bound.
Unbound == "<unbound>"
NoContext == <<Unbound, Unbound>>

\* One pass of the loop over the security-context elements, up to the loop
\* over its policy-information elements: from_zone is assigned, then
\* to_zone.
ContextBegin(c) ==
    /\ pc \in {"contexts", "policies"}
    /\ nCtx' = nCtx + 1
    /\ IF c.from = Absent
       THEN /\ Raise("AttributeError")
            /\ ctx' = ctx
       ELSE IF c.to = Absent
       THEN /\ Raise("AttributeError")
            /\ ctx' = <<c.from, ctx[2]>>
       ELSE /\ ctx' = <<c.from, c.to>>
            /\ pc' = "policies"
            /\ err' = err
    /\ UNCHANGED <<result, policies, nPol>>

\* One pass of the loop over the policy-information elements of the context.
PolicyInfo(pie) ==
    /\ pc = "policies"
    /\ nPol' = nPol + 1
    /\ IF PolicyError(pie) # "none"
       THEN /\ Raise(PolicyError(pie))
            /\ policies' = policies
       ELSE /\ policies' = Append(policies, PolicyFromXml(ctx[1], ctx[2], pie))
            /\ UNCHANGED <<pc, err>>
    /\ UNCHANGED <<result, ctx, nCtx>>

\* No security-context is left: return policies.
PoliciesReturn ==
    /\ pc \in {"contexts", "policies"}
    /\ pc' = "returned"
    /\ result' = Returned(policies)
    /\ UNCHANGED <<err, policyVars>>

----------------------------------------------------------------------------
(* Firewall.__init__.                                                      *)

Extractors == {"policies", "routes", "zones"}

\* The order of the three assignments of Firewall.__init__.
CodeOrder == <<"policies", "routes", "zones">>

\* The label at which each extractor starts.
Entry(extractor) ==
    CASE extractor = "policies" -> "contexts"
      [] extractor = "routes"   -> "tables"
      [] extractor = "zones"    -> "zones"

NoAttributes == [a \in {} |-> <<>>]

\* self.<attribute> = value
\* (a faulty variant, every result is assigned to self.policies)
AssignFirst(attributes, attribute, value) ==
    [a \in DOMAIN attributes \cup {"policies"} |->
        IF a = "policies" THEN value ELSE attributes[a]]
Assign(attributes, attribute, value) ==
    [a \in DOMAIN attributes \cup {attribute} |->
        IF a = attribute THEN value ELSE attributes[a]]

\* self.x = self._parse_x(...): the call.
FwCall ==
    /\ pc = "init"
    /\ step < Len(order)
    /\ step' = step + 1
    /\ pc' = Entry(order[step + 1])
    /\ UNCHANGED <<err, result, docs, order, self, fw>>

\* self.x = self._parse_x(...): the assignment of what the call returned;
\* after the last one the constructor returns and the caller has the object.
FwAssign ==
    /\ pc = "returned"
    /\ self' = Assign(self, order[step], result.val)
    /\ result' = NoResult
    /\ IF step < Len(order)
       THEN pc' = "init" /\ fw' = fw
       ELSE pc' = "constructed" /\ fw' = [kind |-> "Firewall", val |-> self']
    /\ UNCHANGED <<err, docs, order, step>>

----------------------------------------------------------------------------
(* SpecZones: _parse_zones on any document within the bounds.              *)

IdleZones ==
    /\ zones = <<>> /\ zone = NoZone /\ nZone = 0 /\ nBook = 0
    /\ defined = NoneDefined
IdleRoutes ==
    /\ routes = <<>> /\ route = NoRoute /\ origin = NoOrigin
    /\ nTbl = 0 /\ nRt = 0 /\ nEnt = 0
IdlePolicies ==
    policies = <<>> /\ ctx = NoContext /\ nCtx = 0 /\ nPol = 0
IdleFirewall ==
    docs = <<>> /\ order = <<>> /\ step = 0 /\ self = <<>> /\ fw = NoResult

InitZones ==
    /\ pc = "zones" /\ err = "none" /\ result = NoResult
    /\ IdleZones /\ IdleRoutes /\ IdlePolicies /\ IdleFirewall

NextZones ==
    \/ /\ nZone < MaxZones
       /\ \E sz \in ZoneElts : ZoneBegin(sz)
       /\ UNCHANGED <<routeVars, policyVars, fwVars>>
    \/ /\ nBook < MaxBook
       /\ \E addr \in BookElts : BookChild(addr)
       /\ UNCHANGED <<routeVars, policyVars, fwVars>>
    \/ ZoneEnd /\ UNCHANGED <<routeVars, policyVars, fwVars>>
    \/ ZonesReturn /\ UNCHANGED <<routeVars, policyVars, fwVars>>

SpecZones == InitZones /\ [][NextZones]_vars

----------------------------------------------------------------------------
(* SpecRoutes: _parse_routes on any document within the bounds.            *)

InitRoutes ==
    /\ pc = "tables" /\ err = "none" /\ result = NoResult
    /\ IdleZones /\ IdleRoutes /\ IdlePolicies /\ IdleFirewall

NextRoutes ==
    \/ /\ nTbl < MaxTables
       /\ \E table \in TableElts : TableNext(table)
       /\ UNCHANGED <<zoneVars, policyVars, fwVars>>
    \/ RoutesNone /\ UNCHANGED <<zoneVars, policyVars, fwVars>>
    \/ /\ nRt < MaxRts
       /\ \E rt \in RtElts : RtBegin(rt)
       /\ UNCHANGED <<zoneVars, policyVars, fwVars>>
    \/ /\ nEnt < MaxEntries
       /\ \E entry \in RtEntryElts : RtEntry(entry)
       /\ UNCHANGED <<zoneVars, policyVars, fwVars>>
    \/ RtEnd /\ UNCHANGED <<zoneVars, policyVars, fwVars>>
    \/ RoutesReturn /\ UNCHANGED <<zoneVars, policyVars, fwVars>>

SpecRoutes == InitRoutes /\ [][NextRoutes]_vars

----------------------------------------------------------------------------
(* SpecPolicies: _parse_policies on any document within the bounds.        *)

InitPolicies ==
    /\ pc = "contexts" /\ err = "none" /\ result = NoResult
    /\ IdleZones /\ IdleRoutes /\ IdlePolicies /\ IdleFirewall

NextPolicies ==
    \/ /\ nCtx < MaxContexts
       /\ \E c \in ContextElts : ContextBegin(c)
       /\ UNCHANGED <<zoneVars, routeVars, fwVars>>
    \/ /\ nPol < MaxPolicies
       /\ \E pie \in PolicyElts : PolicyInfo(pie)
       /\ UNCHANGED <<zoneVars, routeVars, fwVars>>
    \/ PoliciesReturn /\ UNCHANGED <<zoneVars, routeVars, fwVars>>

SpecPolicies == InitPolicies /\ [][NextPolicies]_vars

----------------------------------------------------------------------------
(* SpecFirewall: Firewall(...) on three given documents.  A document is    *)
(* the sequence of its top elements, each with its children in document    *)
(* order.  Firewall.__init__ runs the extractors in CodeOrder; the other   *)
(* orders are here so that the outcome can be compared across them.        *)

Orders ==
    {o \in [1..3 -> Extractors] : \A i, j \in 1..3 : i # j => o[i] # o[j]}

Context(to, children) ==
    [tag |-> "security-context", from |-> "trust", to |-> to,
     children |-> children]
\* No policy, policies that parse, and a policy of each broken kind after
\* one that parses.
PolicyDocs ==
    { <<>>,
      <<Context("untrust", <<GoodPie>>), Context("trust", <<>>)>>,
      <<Context(Absent, <<GoodPie>>)>> }
    \cup {<<Context("untrust", <<GoodPie, pie>>)>> : pie \in BrokenElts}

ActiveEntry ==
    [tag |-> "rt-entry", active |-> TRUE, vias |-> <<"ge-0/0/1">>, to |-> TRUE]
Rt(dest, children) == [tag |-> "rt", dest |-> dest, children |-> children]
Table(name, children) ==
    [tag |-> "route-table", name |-> name, children |-> children]
RouteDocs ==
    { <<>>,
      <<Table("inet.6", <<Rt(AbsentPrefix, <<>>)>>)>>,
      <<Table("inet.6", <<>>),
        Table("inet.0", <<Rt(<<0, 1>>, <<ActiveEntry>>)>>)>>,
      <<Table("inet.0", <<Rt(<<0, 1>>, <<>>), Rt(AbsentPrefix, <<>>)>>)>> }

AddressA ==
    [tag |-> "address", name |-> "A", prefix |-> <<0, 1>>, members |-> <<>>]
SetS(members) ==
    [tag |-> "address-set", name |-> "S", prefix |-> AbsentPrefix,
     members |-> members]
SecurityZone(name, book, children) ==
    [tag |-> "security-zone", name |-> name, interfaces |-> <<"ge-0/0/0">>,
     book |-> book, children |-> children]
ZoneDocs ==
    { <<>>,
      <<SecurityZone("trust", TRUE, <<AddressA, SetS(<<"A", "any">>)>>)>>,
      <<SecurityZone("trust", TRUE, <<AddressA>>),
        SecurityZone("untrust", TRUE, <<SetS(<<"A">>)>>)>>,
      <<SecurityZone("trust", FALSE, <<>>)>>,
      <<SecurityZone(Absent, TRUE, <<>>)>> }

\* The children of the elements before the n-th.
RECURSIVE ChildrenBefore(_, _)
ChildrenBefore(doc, n) ==
    IF n <= 1 THEN 0
    ELSE Len(doc[n - 1].children) + ChildrenBefore(doc, n - 1)

\* The children of the n-th element that are still to be read, when k
\* children have been read in the document.
Rest(doc, n, k) ==
    IF n = 0 THEN <<>>
    ELSE SubSeq(doc[n].children, k - ChildrenBefore(doc, n) + 1,
                Len(doc[n].children))

InitFirewall ==
    /\ pc = "init" /\ err = "none" /\ result = NoResult
    /\ IdleZones /\ IdleRoutes /\ IdlePolicies
    /\ docs \in [policies : PolicyDocs, routes : RouteDocs, zones : ZoneDocs]
    /\ order \in Orders
    /\ step = 0 /\ self = NoAttributes /\ fw = NoResult

NextFirewall ==
    \/ FwCall /\ UNCHANGED <<zoneVars, routeVars, policyVars>>
    \/ FwAssign /\ UNCHANGED <<zoneVars, routeVars, policyVars>>
    \/ /\ Rest(docs.policies, nCtx, nPol) = <<>>
       /\ nCtx < Len(docs.policies)
       /\ ContextBegin(docs.policies[nCtx + 1])
       /\ UNCHANGED <<zoneVars, routeVars, fwVars>>
    \/ /\ Rest(docs.policies, nCtx, nPol) # <<>>
       /\ PolicyInfo(Head(Rest(docs.policies, nCtx, nPol)))
       /\ UNCHANGED <<zoneVars, routeVars, fwVars>>
    \/ /\ Rest(docs.policies, nCtx, nPol) = <<>>
       /\ nCtx = Len(docs.policies)
       /\ PoliciesReturn
       /\ UNCHANGED <<zoneVars, routeVars, fwVars>>
    \/ /\ nTbl < Len(docs.routes)
       /\ TableNext(docs.routes[nTbl + 1])
       /\ UNCHANGED <<zoneVars, policyVars, fwVars>>
    \/ /\ nTbl = Len(docs.routes)
       /\ RoutesNone
       /\ UNCHANGED <<zoneVars, policyVars, fwVars>>
    \/ /\ pc = "rts"
       /\ nRt < Len(docs.routes[nTbl].children)
       /\ RtBegin(docs.routes[nTbl].children[nRt + 1])
       /\ UNCHANGED <<zoneVars, policyVars, fwVars>>
    \/ /\ pc = "entries"
       /\ nEnt < Len(docs.routes[nTbl].children[nRt].children)
       /\ RtEntry(docs.routes[nTbl].children[nRt].children[nEnt + 1])
       /\ UNCHANGED <<zoneVars, policyVars, fwVars>>
    \/ /\ pc = "entries"
       /\ nEnt = Len(docs.routes[nTbl].children[nRt].children)
       /\ RtEnd
       /\ UNCHANGED <<zoneVars, policyVars, fwVars>>
    \/ /\ pc = "rts"
       /\ nRt = Len(docs.routes[nTbl].children)
       /\ RoutesReturn
       /\ UNCHANGED <<zoneVars, policyVars, fwVars>>
    \/ /\ nZone < Len(docs.zones)
       /\ ZoneBegin(docs.zones[nZone + 1])
       /\ UNCHANGED <<routeVars, policyVars, fwVars>>
    \/ /\ Rest(docs.zones, nZone, nBook) # <<>>
       /\ BookChild(Head(Rest(docs.zones, nZone, nBook)))
       /\ UNCHANGED <<routeVars, policyVars, fwVars>>
    \/ /\ Rest(docs.zones, nZone, nBook) = <<>>
       /\ ZoneEnd
       /\ UNCHANGED <<routeVars, policyVars, fwVars>>
    \/ /\ nZone = Len(docs.zones)
       /\ ZonesReturn
       /\ UNCHANGED <<routeVars, policyVars, fwVars>>

SpecFirewall == InitFirewall /\ [][NextFirewall]_vars

Spec == SpecFirewall

----------------------------------------------------------------------------
(* Claims about the zones, checked under SpecZones.                        *)

\* The union of the values the member names have in addresses.
MemberUnion(addresses, members) ==
    UNION {addresses[members[i]] : i \in DOMAIN members}

AllKnown(addresses, members) ==
    \A i \in DOMAIN members : members[i] \in DOMAIN addresses

\* C1: every security-zone element yields a Zone whose addresses map "any"
\* to the whole address space, also when the element has no address-book:
\* a missing address-book ends nothing in an exception, and each Zone of
\* zones has "any" -> 0.0.0.0/0.
C1_AnyInEveryZone ==
    /\ ~(pc = "failed" /\ err = "TypeError")
    /\ \A i \in DOMAIN zones :
          /\ "any" \in DOMAIN zones[i].addresses
          /\ zones[i].addresses["any"] = IPSet({IP(AnyPrefix)})

\* C2, as stated: processing an address-set whose members are all defined
\* stores the union of the members' values under the set's name and leaves
\* the members' own entries unchanged, and the value stored under the name
\* of an address-set stays what it is to the end of Zone._from_xml.
C2_Original ==
    [][\A addr \in BookElts : BookChild(addr) =>
          /\ (addr.tag = "address-set"
              /\ AllKnown(zone.addresses, addr.members)) =>
                /\ pc' = "book"
                /\ zone'.addresses[addr.name]
                     = MemberUnion(zone.addresses, addr.members)
                /\ \A i \in DOMAIN addr.members :
                      zone'.addresses[addr.members[i]]
                        = zone.addresses[addr.members[i]]
          /\ \A n \in DOMAIN defined :
                defined[n] = "address-set" =>
                    zone'.addresses[n] = zone.addresses[n]]_vars

\* C2, amended: processing an address-set whose members are all defined
\* stores the union of the members' values under the set's name and leaves
\* the entry under every other name unchanged; so does an address, which
\* stores its own prefix.  The value under a name changes only when a child
\* of that name is processed, and no name is ever removed, so the set can
\* be a member of any later set.
C2_UnionStoredUnderName ==
    [][\A addr \in BookElts : BookChild(addr) =>
          /\ (addr.tag = "address-set"
              /\ AllKnown(zone.addresses, addr.members)) =>
                /\ pc' = "book"
                /\ zone'.addresses[addr.name]
                     = MemberUnion(zone.addresses, addr.members)
          /\ \A n \in DOMAIN zone.addresses :
                /\ n \in DOMAIN zone'.addresses
                /\ (n # addr.name => zone'.addresses[n] = zone.addresses[n])]_vars

\* C2, its case: A is an address, then S = {A, any} is the whole address
\* space while A keeps its prefix.
C2_Witness ==
    /\ pc = "book" /\ nZone = 1 /\ nBook = 2
    /\ DOMAIN defined = {"A", "S"}
    /\ defined["A"] = "address" /\ defined["S"] = "address-set"
    /\ zone.addresses["A"] = IPSet({IP(<<0, 1>>)})
    /\ zone.addresses["S"] = IPSet({IP(AnyPrefix)})
    /\ zone.addresses["any"] = IPSet({IP(AnyPrefix)})

\* C3: an address-set that names a member which is not a key of the zone's
\* addresses when the set is processed ends zone extraction in a KeyError:
\* nothing is returned, neither then nor later, the zones parsed before
\* stay in the list that is never handed over.
C3_UnresolvedFails ==
    [][/\ pc # "failed"
       /\ \A addr \in AddressSetElts :
             (BookChild(addr) /\ ~AllKnown(zone.addresses, addr.members)) =>
                /\ pc' = "failed"
                /\ err' = "KeyError"
                /\ result' = NoResult
                /\ zone' = zone]_vars

\* C3, its case: a zone was parsed, a later one holds an unresolved
\* reference, and the caller has no list.
C3_Witness ==
    /\ pc = "failed" /\ err = "KeyError"
    /\ Len(zones) = 1 /\ nZone = 2
    /\ result = NoResult

\* C10: a Zone starts from addresses holding only "any"; an address-set
\* naming a member that no earlier child of the same zone defined (and that
\* is not "any") fails with a KeyError whatever the earlier zones define;
\* and no step changes a Zone that is already in zones.
C10_ZonesIsolated ==
    [][/\ \A sz \in ZoneElts : ZoneBegin(sz) =>
             /\ DOMAIN zone'.addresses = {"any"}
             /\ zone'.addresses["any"] = IPSet({IP(AnyPrefix)})
       /\ \A addr \in AddressSetElts :
             (BookChild(addr)
              /\ \E i \in DOMAIN addr.members :
                    addr.members[i] \notin DOMAIN defined \cup {"any"}) =>
                pc' = "failed" /\ err' = "KeyError"
       /\ Len(zones') >= Len(zones)
       /\ \A i \in DOMAIN zones : zones'[i] = zones[i]]_vars

\* C10, its case: the first zone defines A and S, the second defines
\* neither, and an address-set of the second zone failed on a name other
\* than "any".
C10_Witness ==
    /\ pc = "failed" /\ err = "KeyError"
    /\ Len(zones) = 1
    /\ {"A", "S"} \subseteq DOMAIN zones[1].addresses
    /\ DOMAIN zone.addresses = {"any"}

----------------------------------------------------------------------------
(* Claims about the routes, checked under SpecRoutes.                      *)

\* C4: every Route of routes, and of the list returned, has a non-empty
\* interface; an rt none of whose rt-entry elements carries the marker, or
\* whose marked entries have no via, or whose interface was last set from a
\* via without text, adds nothing to routes.
C4_NoRouteWithoutInterface ==
    [][/\ \A i \in DOMAIN routes' : Truthy(routes'[i].interface)
       /\ \A i \in DOMAIN result'.val : Truthy(result'.val[i].interface)
       /\ (pc = "entries" /\ pc' = "rts"
           /\ (origin.is_local = 0 \/ origin.interface = 0
               \/ route.interface = None)) => routes' = routes]_vars

\* C4, its case: the first rt gave a Route, the second, whose marked entry
\* has no via, gave none.
C4_Witness ==
    /\ pc = "rts" /\ nRt = 2 /\ Len(routes) = 1
    /\ origin.is_local > 0 /\ origin.interface = 0

\* C5: a route-table is examined only while no Route has been collected,
\* and its rt elements are read exactly when its table-name is "inet.0";
\* once the rt elements of a table are being read no other table is ever
\* examined, and what is returned is the list collected from that table;
\* when the tables run out without a match the result is the empty list
\* and no exception.
C5_FirstInet0Only ==
    [][/\ \A table \in TableElts : TableNext(table) =>
             /\ routes = <<>> /\ routes' = <<>>
             /\ (pc' = "rts") = (table.name = "inet.0")
       /\ pc \in {"rts", "entries"} => pc' # "tables"
       /\ (pc = "rts" /\ pc' = "returned") => result' = Returned(routes)
       /\ (pc = "tables" /\ pc' = "returned") =>
             result' = Returned(<<>>) /\ err' = "none"]_vars

\* C5, its case: the first table is not inet.0, the second is and gave a
\* Route, and the list was returned while a further table could follow.
C5_Witness ==
    /\ pc = "returned" /\ nTbl = 2 /\ nTbl < MaxTables
    /\ Len(result.val) = 1

\* C6: the interface and the is_local of an emitted Route are taken from
\* one and the same rt-entry, the one carrying the current-active marker.
C6_OneEntryDecides ==
    (pc = "rts" /\ nRt > 0 /\ Truthy(route.interface)) =>
        origin.interface = origin.is_local

----------------------------------------------------------------------------
(* Claims about the policies, checked under SpecPolicies.                  *)

SamePair(p, q) == p.from_zone = q.from_zone /\ p.to_zone = q.to_zone

\* The integer a policy-sequence-number text of SeqTexts denotes.
Denoted(text) ==
    CASE text = <<49>> -> 1
      [] text = <<48, 49>> -> 1
      [] text = <<160, 1634, 9>> -> 2

\* C7: a policy-information element that is parsed adds exactly one Policy
\* at the end of policies and changes none before it; the Policy has the
\* element's name, is enabled exactly when the policy-state is "enabled",
\* and carries the zones of the security-context read last; an element
\* that lacks a child Policy._from_xml reads, or whose sequence number is
\* no number, ends the parse in an exception and adds nothing; the list
\* returned is policies, with one Policy per element read.
C7_OnePolicyPerEntryInOrder ==
    [][/\ \A c \in ContextElts : (ContextBegin(c) /\ pc' # "failed") =>
             ctx' = <<c.from, c.to>> /\ policies' = policies
       /\ \A pie \in BrokenElts : PolicyInfo(pie) =>
             pc' = "failed" /\ policies' = policies /\ result' = NoResult
       /\ \A pie \in PolicyElts : (PolicyInfo(pie) /\ pc' # "failed") =>
             /\ pie \in GoodElts
             /\ Len(policies') = Len(policies) + 1
             /\ SubSeq(policies', 1, Len(policies)) = policies
             /\ policies'[Len(policies')].name = pie.name
             /\ policies'[Len(policies')].enabled = (pie.state = "enabled")
             /\ policies'[Len(policies')].from_zone = ctx[1]
             /\ policies'[Len(policies')].to_zone = ctx[2]
       /\ pc' = "returned" =>
             result' = Returned(policies) /\ Len(policies) = nPol]_vars

\* C7, its case: two contexts with different zones, a disabled policy with
\* the higher sequence number first, both returned in that order.
C7_Witness ==
    /\ pc = "returned" /\ Len(result.val) = 2 /\ nCtx = 2
    /\ result.val[1].from_zone # result.val[2].from_zone
    /\ ~result.val[1].enabled /\ result.val[2].enabled
    /\ result.val[1].sequence > result.val[2].sequence

\* C8, as stated: no two Policies of policies that share from_zone and
\* to_zone have the same sequence.
C8_Original ==
    \A i, j \in DOMAIN policies :
        (i # j /\ SamePair(policies[i], policies[j])) =>
            policies[i].sequence # policies[j].sequence

\* C8, amended: the sequence of a Policy is the integer its
\* policy-sequence-number denotes, nothing is checked or dropped, and
\* policies stays free of two Policies with the same zones and sequence as
\* long as each element's number differs from the numbers of the Policies
\* of its zones that are already there.
C8_SequenceCopied ==
    [][\A pie \in PolicyElts : (PolicyInfo(pie) /\ pc' # "failed") =>
          LET new == policies'[Len(policies')]
          IN  /\ new.sequence = Denoted(pie.seq)
              /\ ((/\ C8_Original
                   /\ \A i \in DOMAIN policies :
                         SamePair(policies[i], new) =>
                             policies[i].sequence # Denoted(pie.seq))
                  => C8_Original')]_vars

\* C8, its case: two Policies of the same zones with different sequences.
C8_Witness ==
    /\ pc = "returned" /\ Len(result.val) = 2
    /\ SamePair(result.val[1], result.val[2])
    /\ result.val[1].sequence # result.val[2].sequence

----------------------------------------------------------------------------
(* Claims about Firewall.__init__, checked under SpecFirewall.             *)

\* What the three documents must be for no extractor to raise, said of the
\* documents alone.
PolicyDocOk(doc) ==
    \A i \in DOMAIN doc :
        /\ doc[i].from # Absent /\ doc[i].to # Absent
        /\ \A j \in DOMAIN doc[i].children :
              LET pie == doc[i].children[j]
              IN  /\ pie.name # Absent /\ pie.state # Absent
                  /\ pie.seq \notin {AbsentText, NoText}
                  /\ PyInt(pie.seq).ok
                  /\ \A k \in DOMAIN pie.src : pie.src[k] # Absent
                  /\ \A k \in DOMAIN pie.dst : pie.dst[k] # Absent
                  /\ \A k \in DOMAIN pie.apps : pie.apps[k] # Absent
                  /\ pie.action # Absent
RouteDocOk(doc) ==
    \A i \in DOMAIN doc :
        (doc[i].name = "inet.0"
         /\ \A h \in 1..(i - 1) : doc[h].name # "inet.0") =>
            \A j \in DOMAIN doc[i].children :
                doc[i].children[j].dest # AbsentPrefix
ZoneDocOk(doc) ==
    \A i \in DOMAIN doc :
        /\ doc[i].name # Absent /\ doc[i].book
        /\ \A j \in DOMAIN doc[i].children :
              \A m \in DOMAIN doc[i].children[j].members :
                  \/ doc[i].children[j].members[m] = "any"
                  \/ \E h \in 1..(j - 1) :
                        doc[i].children[h].name
                          = doc[i].children[j].members[m]
DocsOk ==
    PolicyDocOk(docs.policies) /\ RouteDocOk(docs.routes)
        /\ ZoneDocOk(docs.zones)

\* C9: the caller has a Firewall exactly when the constructor has returned,
\* and then policies, routes and zones are all set, to the lists the
\* extractors built; when an extractor raised, the caller has nothing and
\* nothing more runs; the constructor always comes to one of the two ends,
\* and which one depends on the documents alone, whatever the order of the
\* extractors: it returns when no document makes its extractor raise and
\* fails otherwise.
C9_AllOrNothing ==
    /\ (fw # NoResult) = (pc = "constructed")
    /\ pc = "constructed" =>
          /\ DocsOk
          /\ fw.kind = "Firewall"
          /\ DOMAIN fw.val = Extractors
          /\ fw.val.policies = policies
          /\ fw.val.routes = routes
          /\ fw.val.zones = zones
    /\ pc = "failed" => ~DocsOk /\ err # "none"
    /\ pc \in {"constructed", "failed"} <=> ~ENABLED NextFirewall

\* C9, its case: in the order of the code, policies and routes are set,
\* to non-empty lists, the zones extractor raised, and the caller has no
\* object.
C9_Witness ==
    /\ pc = "failed" /\ order = CodeOrder /\ step = 3
    /\ DOMAIN self = {"policies", "routes"}
    /\ self.policies # <<>> /\ self.routes # <<>>
    /\ fw = NoResult

============================================================================
